---- MODULE Spec2Model ----
(***************************************************************************)
(* The task execution engine of the browser extension                      *)
(* (src/browser-extension/src/content.ts, class TaskExecutor): a WebSocket  *)
(* channel that reconnects after every close, an admission-controlled       *)
(* dispatch of task_request frames, and the emission of task_result frames. *)
(*                                                                         *)
(* One action of the model is one macrotask of the JavaScript event loop    *)
(* (a socket event, a timer, the settlement of a handler's I/O) together    *)
(* with every microtask continuation it triggers: an await on a promise     *)
(* that is already rejected resumes before any other event is delivered.    *)
(***************************************************************************)
EXTENDS Integers, Sequences, FiniteSets, TLC

\* ------------------------------------------------------------------ bounds
NumFrames == 3       \* inbound frames delivered in one run
MaxCap == 2          \* largest config.maxConcurrentTasks explored
PriorityFrames == 3  \* inbound frames delivered in one run of PrioritySpec
MaxRetry == 1        \* largest config.retryAttempts explored besides the program's own
MaxSockets == 2      \* WebSocket objects told apart (later ones share the last id)
LiveFrames == 2      \* inbound frames delivered in one run of FairSpec
HandlerFrames == 2   \* inbound frames delivered in one run of HandlerSpec
StoreSockets == 3    \* WebSocket objects the frontend store creates in one run

\* ------------------------------------------------------------------ values
\* JavaScript's undefined and null where the model needs them as field values:
\* a string field holds Undefined, the id of a task holds NoId, and an absent
\* result or error is the empty text.
Undefined == "undefined"
NoId == 0
Null == << >>

\* Categories executeTask dispatches on, and the actions executeDOMTask knows.
KnownTypes == {"DOM_MANIPULATION", "NETWORK_INTERCEPT", "UI_AUTOMATION", "DATA_EXTRACTION"}
DOMActions == {"CLICK", "INPUT", "SCROLL"}
UIActions == {"OPEN_POPUP", "SHOW_NOTIFICATION"}
ExtractionTypes == {"TEXT", "ATTRIBUTES", "SCREENSHOT"}

\* message.content when the frame carries none (missing or null).
NullContent == [isNull |-> TRUE, id |-> NoId, type |-> Undefined,
                hasParameters |-> FALSE, action |-> Undefined]

\* message.content of the task_request frames the model delivers as token n:
\* no content, the empty object, an unknown type and a well-formed network task.
TaskContents(n) ==
  { NullContent,
    [isNull |-> FALSE, id |-> NoId, type |-> Undefined,
     hasParameters |-> FALSE, action |-> Undefined],
    [isNull |-> FALSE, id |-> n, type |-> "BOGUS",
     hasParameters |-> TRUE, action |-> Undefined],
    [isNull |-> FALSE, id |-> n, type |-> "NETWORK_INTERCEPT",
     hasParameters |-> TRUE, action |-> Undefined] }

\* task_request frames for the four handlers.  Next to the fields above the
\* content carries task_id (the identifier under the name the wire format
\* gives it; NoId when the request names it id) and extraction
\* (parameters.type, which executeDataExtractionTask dispatches on).
HandlerContents(n) ==
  { [isNull |-> FALSE, id |-> n, task_id |-> NoId, type |-> "DOM_MANIPULATION",
     hasParameters |-> TRUE, action |-> a, extraction |-> Undefined] :
       a \in {"CLICK", "HOVER"} }
  \cup
  { [isNull |-> FALSE, id |-> n, task_id |-> NoId, type |-> "UI_AUTOMATION",
     hasParameters |-> TRUE, action |-> "HOVER", extraction |-> Undefined],
    [isNull |-> FALSE, id |-> NoId, task_id |-> n, type |-> "NETWORK_INTERCEPT",
     hasParameters |-> TRUE, action |-> "HOVER", extraction |-> Undefined],
    [isNull |-> FALSE, id |-> n, task_id |-> NoId, type |-> "DATA_EXTRACTION",
     hasParameters |-> TRUE, action |-> "HOVER", extraction |-> "TEXT"],
    [isNull |-> FALSE, id |-> n, task_id |-> NoId, type |-> "DATA_EXTRACTION",
     hasParameters |-> TRUE, action |-> Undefined, extraction |-> "HTML"] }
HandlerRequests(n) ==
  { [kind |-> "task_request", content |-> c] : c \in HandlerContents(n) }

\* The lowest and the highest priority the task form lets a user give a task.
Priorities == {1, 10}

\* task_request frames that carry a priority next to the fields the executor
\* reads: well-formed network tasks of either priority.
PrioritizedFrames(n) ==
  { [kind |-> "task_request",
     content |-> [isNull |-> FALSE, id |-> n, type |-> "NETWORK_INTERCEPT",
                  hasParameters |-> TRUE, action |-> Undefined, priority |-> p]] :
    p \in Priorities }

\* event.data of an inbound frame: text that is not JSON, or a task_request
\* carrying some content.
InboundFrames(n) ==
  { [kind |-> "not_json", content |-> NullContent] }
  \cup { [kind |-> "task_request", content |-> c] : c \in TaskContents(n) }

\* ------------------------------------------------------------------ state
VARIABLES
  maxConcurrentTasks,  \* this.config.maxConcurrentTasks
  retryAttempts,       \* this.config.retryAttempts
  defaultTimeout,      \* this.config.defaultTimeout
  activeTaskCount,     \* this.activeTaskCount
  taskQueue,           \* this.taskQueue
  readyState,          \* this.socket.readyState
  sockId,              \* which WebSocket object this.socket is
  reconnectTimer,      \* a setTimeout(initializeWebSocket, 5000) is pending
  liveSockets,         \* how many WebSocket objects made so far are CONNECTING or OPEN
  connectsSent,        \* how many 'connect' messages went out on this.socket
  pageRequests,        \* per token: EXECUTE_IN_PAGE messages sent to a tab for the task
  storeSocket,         \* useWebSocket: state.socket, the id of a socket or NoSocket
  connected,           \* useWebSocket: state.connected
  storeReady,          \* readyState of each socket the store has created
  storeMade,           \* how many sockets the store has created
  running,             \* tasks whose handler is suspended on its I/O
  frames,              \* history: the inbound frames, in arrival order
  firstSocketFrames,   \* history: how many of them the first socket delivered
  admitted,            \* history: tokens in the order line 273 admitted them
  sendLog,             \* history: token -> the calls of sendTaskResult made for it
  ended,               \* history: token -> how its handler ended, and readyState then
  released,            \* history: tokens for which line 280 has run
  everQueued           \* history: tokens line 269 pushed on taskQueue

vars == << maxConcurrentTasks, retryAttempts, defaultTimeout, activeTaskCount, taskQueue, readyState, sockId,
           reconnectTimer, liveSockets, connectsSent, pageRequests, storeSocket, connected, storeReady, storeMade,
           running, frames, firstSocketFrames, admitted, sendLog,
           ended, released, everQueued >>

engineVars == << activeTaskCount, taskQueue, running, admitted, sendLog, ended,
                released, everQueued >>
frameVars == << frames, firstSocketFrames >>
pageVars == << pageRequests >>
storeVars == << storeSocket, connected, storeReady, storeMade >>
configVars == << maxConcurrentTasks, retryAttempts, defaultTimeout >>
socketVars == << readyState, sockId, reconnectTimer, liveSockets, connectsSent >>

\* A token is the position of a frame in the arrival order; it names the task
\* object the frame's content becomes.
Tokens == 1..NumFrames
NotEnded == [kind |-> "none", ready |-> "none", value |-> Null]

\* ------------------------------------------------------------------ helpers
Range(s) == { s[i] : i \in 1..Len(s) }

\* The engine state handleTaskRequest reads and writes, as one record.
Engine ==
  [ activeTaskCount |-> activeTaskCount, taskQueue |-> taskQueue,
    running |-> running, admitted |-> admitted, sendLog |-> sendLog,
    ended |-> ended, released |-> released, everQueued |-> everQueued ]

SetEngine(st) ==
  /\ activeTaskCount' = st.activeTaskCount
  /\ taskQueue' = st.taskQueue
  /\ running' = st.running
  /\ admitted' = st.admitted
  /\ sendLog' = st.sendLog
  /\ ended' = st.ended
  /\ released' = st.released
  /\ everQueued' = st.everQueued

\* WebSocket.send on a socket in the given readyState: it throws
\* InvalidStateError while CONNECTING, transmits while OPEN, and discards the
\* data without throwing while CLOSING or CLOSED.
SocketSend(rs) ==
  IF rs = "CONNECTING" THEN "threw"
  ELSE IF rs = "OPEN" THEN "sent"
  ELSE "dropped"

\* (Variant: a request is admitted only while two slots are free.)
Admissible_Strict(active, max) == active + 1 < max
\* The admission test of handleTaskRequest (the negation of line 268).
\* (Variant: the comparison off by one.)
Admissible_Off(active, max) == active <= max
Admissible(active, max) == active < max

\* taskQueue.shift(): the task taken and the queue left.
\* (Variant: the first task of the highest priority is taken.)
Shift_Priority(q) ==
  LET best == CHOOSE i \in 1..Len(q) :
                /\ \A j \in 1..Len(q) : q[j].body.priority <= q[i].body.priority
                /\ \A j \in 1..(i - 1) : q[j].body.priority < q[i].body.priority
  IN [task |-> q[best],
      rest |-> SubSeq(q, 1, best - 1) \o SubSeq(q, best + 1, Len(q))]
\* (Variant: pop(), which takes the last element.)
Shift_Last(q) == [task |-> q[Len(q)], rest |-> SubSeq(q, 1, Len(q) - 1)]
Shift(q) == [task |-> Head(q), rest |-> Tail(q)]

\* error.message of the exceptions the platform raises.
TypeError == <<"TypeError: cannot read properties of ", Undefined>>
InvalidStateError == <<"InvalidStateError: still in ", "CONNECTING">>
FetchError == <<"TypeError: ", "Failed to fetch">>

\* executeDOMTask up to its first suspension.
\* (Variant: no default case, an unknown action is run like a known one.)
executeDOMTask_NoDefault(task) ==
  IF ~task.hasParameters
  THEN [kind |-> "throw", error |-> TypeError]
  ELSE [kind |-> "await", error |-> Null]
executeDOMTask(task) ==
  IF ~task.hasParameters
  THEN [kind |-> "throw", error |-> TypeError]
  ELSE IF task.action \in DOMActions
  THEN [kind |-> "await", error |-> Null]
  ELSE [kind |-> "throw", error |-> <<"Unknown DOM action: ", task.action>>]

\* executeNetworkTask up to its first suspension (the fetch).
executeNetworkTask(task) ==
  IF ~task.hasParameters
  THEN [kind |-> "throw", error |-> TypeError]
  ELSE [kind |-> "await", error |-> Null]

\* executeUITask up to its first suspension (the browser API call).
executeUITask(task) ==
  IF ~task.hasParameters
  THEN [kind |-> "throw", error |-> TypeError]
  ELSE IF task.action \in UIActions
  THEN [kind |-> "await", error |-> Null]
  ELSE [kind |-> "throw", error |-> <<"Unknown UI action: ", task.action>>]

\* executeDataExtractionTask up to its first suspension; it dispatches on
\* parameters.type and never reads parameters.action.
executeDataExtractionTask(task) ==
  IF ~task.hasParameters
  THEN [kind |-> "throw", error |-> TypeError]
  ELSE IF task.extraction \in ExtractionTypes
  THEN [kind |-> "await", error |-> Null]
  ELSE [kind |-> "throw", error |-> <<"Unknown extraction type: ", task.extraction>>]

\* executeTask up to its first suspension: either the handler is now waiting
\* for I/O, or it has thrown already.
\* (Variant: no default case, an unknown type falls into the last handler.)
executeTask_Fallthrough(task) ==
  IF task.isNull THEN [kind |-> "throw", error |-> TypeError]
  ELSE IF task.type = "DOM_MANIPULATION" THEN executeDOMTask(task)
  ELSE IF task.type = "UI_AUTOMATION" THEN executeUITask(task)
  ELSE IF task.type = "DATA_EXTRACTION" THEN executeDataExtractionTask(task)
  ELSE executeNetworkTask(task)
executeTask(task) ==
  IF task.isNull THEN [kind |-> "throw", error |-> TypeError]
  ELSE IF task.type = "DOM_MANIPULATION" THEN executeDOMTask(task)
  ELSE IF task.type = "NETWORK_INTERCEPT" THEN executeNetworkTask(task)
  ELSE IF task.type = "UI_AUTOMATION" THEN executeUITask(task)
  ELSE IF task.type = "DATA_EXTRACTION" THEN executeDataExtractionTask(task)
  ELSE [kind |-> "throw", error |-> <<"Unknown task type: ", task.type>>]

\* What browser.tabs.query({active, currentWindow}) can resolve to: no tab at
\* all, a tab without an id, a tab with one.
TabQueries == {"none", "no_id", "tab"}

\* What browser.tabs.sendMessage can settle with: the value the page function
\* returned, or a rejection when nothing in the tab receives the message.
NoReceiver == <<"Could not establish connection. ", "Receiving end does not exist.">>
PageReplies(values) ==
  { [kind |-> "return", value |-> v, error |-> Null] : v \in values }
  \cup { [kind |-> "throw", value |-> Null, error |-> NoReceiver] }

\* executeInPage, lines 407-416: the settlement of its promise and the
\* number of requests it sent to the tab.  With no tab the destructured tab
\* is undefined and reading tab.id raises a TypeError.
\* (Variant: a page function that found no element makes the call fail.)
executeInPage_NoMatchFails(tabs, reply) ==
  IF tabs = "none"
  THEN [kind |-> "throw", value |-> Null, error |-> TypeError, requests |-> 0]
  ELSE IF tabs = "no_id"
  THEN [kind |-> "throw", value |-> Null, error |-> <<"No active tab">>, requests |-> 0]
  ELSE IF reply.value = <<"false">>
  THEN [kind |-> "throw", value |-> Null, error |-> <<"Element not found">>, requests |-> 1]
  ELSE [kind |-> reply.kind, value |-> reply.value, error |-> reply.error, requests |-> 1]
executeInPage(tabs, reply) ==
  IF tabs = "none"
  THEN [kind |-> "throw", value |-> Null, error |-> TypeError, requests |-> 0]
  ELSE IF tabs = "no_id"
  THEN [kind |-> "throw", value |-> Null, error |-> <<"No active tab">>, requests |-> 0]
  ELSE [kind |-> reply.kind, value |-> reply.value, error |-> reply.error, requests |-> 1]

\* The values the page functions return: the DOM actions answer whether the
\* selector matched an element, TEXT the texts of the matching elements,
\* ATTRIBUTES the attributes of the first match or null.
PageValues(task) ==
  IF task.type = "DOM_MANIPULATION" THEN { <<"true">>, <<"false">> }
  ELSE IF task.extraction = "TEXT" THEN { <<"[]">>, <<"[text]">> }
  ELSE { Null, <<"{attributes}">> }

\* How the I/O of a suspended handler can end.
\* (Variant: a timer of defaultTimeout ms races the handler and rejects.)
HandlerOutcomes_Timeout ==
  { [kind |-> "return", value |-> <<"json">>, error |-> Null],
    [kind |-> "throw", value |-> Null, error |-> FetchError] }
  \cup (IF defaultTimeout > 0
        THEN { [kind |-> "timeout", value |-> Null, error |-> <<"Task timed out">>] }
        ELSE {})
HandlerOutcomes ==
  { [kind |-> "return", value |-> <<"json">>, error |-> Null],
    [kind |-> "throw", value |-> Null, error |-> FetchError] }

\* How the I/O of the suspended handler of a task can end, with the number of
\* requests sent to a tab on the way: the fetch of a network task, the
\* browser API call of a UI task or of a screenshot, executeInPage otherwise.
BrowserCallOutcomes ==
  { [kind |-> "return", value |-> <<"created">>, error |-> Null],
    [kind |-> "throw", value |-> Null, error |-> <<"Error: ", "browser API call failed">>] }
OutcomesOf(task) ==
  IF task.type = "NETWORK_INTERCEPT"
  THEN { [kind |-> r.kind, value |-> r.value, error |-> r.error, requests |-> 0] :
           r \in HandlerOutcomes }
  ELSE IF task.type = "UI_AUTOMATION"
  THEN { [kind |-> r.kind, value |-> r.value, error |-> r.error, requests |-> 0] :
           r \in BrowserCallOutcomes }
  ELSE IF task.type = "DATA_EXTRACTION" /\ task.extraction = "SCREENSHOT"
  THEN { [kind |-> r.kind, value |-> r.value, error |-> r.error, requests |-> 0] :
           r \in BrowserCallOutcomes }
  ELSE { executeInPage(q, reply) : q \in TabQueries, reply \in PageReplies(PageValues(task)) }

\* The top-level keys of the object sendTaskResult serialises.
TaskResultKeys == {"message_type", "content"}

\* One call of sendTaskResult, appended to the task's log: the content of the
\* task_result, and what became of this.socket.send on the socket this.socket
\* holds at the time of the call.
\* (Variant: the socket the request arrived on, which for a request of the
\* first socket is closed once that socket has been replaced.)
sendTaskResult_ArrivalSocket(log, taskId, status, result, error) ==
  Append(log, [task_id |-> taskId, status |-> status, result |-> result,
               error |-> error,
               fate |-> SocketSend(IF taskId # NoId /\ taskId <= firstSocketFrames /\ sockId >= 2
                                   THEN "CLOSED" ELSE readyState)])
\* (Variant: the socket captured at construction instead of this.socket.)
sendTaskResult_FirstSocket(log, taskId, status, result, error) ==
  Append(log, [task_id |-> taskId, status |-> status, result |-> result,
               error |-> error,
               fate |-> SocketSend(IF sockId = 1 THEN readyState ELSE "CLOSED")])
sendTaskResult(log, taskId, status, result, error) ==
  Append(log, [task_id |-> taskId, status |-> status, result |-> result,
               error |-> error, fate |-> SocketSend(readyState)])

\* A call of sendTaskResult made from handleTaskRequest for task tk; threw
\* tells whether the call raised.
Emit(st, tk, status, result, error) ==
  LET log == sendTaskResult(st.sendLog[tk.tok], tk.body.id, status, result, error)
  IN [st |-> [st EXCEPT !.sendLog[tk.tok] = log],
      threw |-> log[Len(log)].fate = "threw"]

\* Lines 274-279 once the await has settled with outcome r.  On a return the
\* try block calls sendTaskResult, and an exception of that call is caught by
\* the catch block, which calls it again.  On a throw the catch block first
\* evaluates task.id, which raises when the task is null or undefined.
\* threw = an exception left the catch block.
\* (Variant: the catch block reports the failure together with the value
\* the handler had returned.)
Settle_KeepResult(st, tk, r) ==
  IF r.kind = "return"
  THEN LET a == Emit(st, tk, "completed", r.value, Null)
       IN IF a.threw THEN Emit(a.st, tk, "failed", r.value, InvalidStateError) ELSE a
  ELSE IF tk.body.isNull
  THEN [st |-> st, threw |-> TRUE]
  ELSE Emit(st, tk, "failed", Null, r.error)
Settle(st, tk, r) ==
  IF r.kind = "return"
  THEN LET a == Emit(st, tk, "completed", r.value, Null)
       IN IF a.threw THEN Emit(a.st, tk, "failed", Null, InvalidStateError) ELSE a
  ELSE IF tk.body.isNull
  THEN [st |-> st, threw |-> TRUE]
  ELSE Emit(st, tk, "failed", Null, r.error)

RECURSIVE handleTaskRequest(_, _), AfterAwait(_, _, _)

\* handleTaskRequest from the settlement of line 275's await on: lines 276-285.
\* (Variant: a task whose handler threw is submitted again, up to
\* retryAttempts times.)
AfterAwait_Retry(st, tk, r) ==
  LET tries == Cardinality({ i \in 1..Len(st.admitted) : st.admitted[i] = tk.tok })
      s1 == Settle([st EXCEPT !.ended[tk.tok] = [kind |-> r.kind, ready |-> readyState, value |-> r.value]], tk, r)
  IN IF r.kind = "throw" /\ ~tk.body.isNull /\ tries <= retryAttempts
     THEN handleTaskRequest([st EXCEPT !.activeTaskCount = @ - 1], tk)
     ELSE IF s1.threw THEN s1.st
     ELSE LET s2 == [s1.st EXCEPT !.activeTaskCount = @ - 1, !.released = @ \cup {tk.tok}]
          IN IF Len(s2.taskQueue) > 0
             THEN handleTaskRequest([s2 EXCEPT !.taskQueue = Shift(@).rest],
                                    Shift(s2.taskQueue).task)
             ELSE s2
\* (Variant: the slot is released and the queue is left alone.)
AfterAwait_NoDrain(st, tk, r) ==
  LET s1 == Settle([st EXCEPT !.ended[tk.tok] = [kind |-> r.kind, ready |-> readyState, value |-> r.value]], tk, r)
  IN IF s1.threw THEN s1.st
     ELSE [s1.st EXCEPT !.activeTaskCount = @ - 1, !.released = @ \cup {tk.tok}]
AfterAwait(st, tk, r) ==
  LET s1 == Settle([st EXCEPT !.ended[tk.tok] = [kind |-> r.kind, ready |-> readyState, value |-> r.value]],
                   tk, r)
  IN IF s1.threw
     THEN s1.st
     ELSE LET s2 == [s1.st EXCEPT !.activeTaskCount = @ - 1,
                                  !.released = @ \cup {tk.tok}]
          IN IF Len(s2.taskQueue) > 0
             THEN handleTaskRequest([s2 EXCEPT !.taskQueue = Shift(@).rest],
                                    Shift(s2.taskQueue).task)
             ELSE s2

\* handleTaskRequest, lines 267-286, run to the point where control returns
\* to the event loop.
handleTaskRequest(st, tk) ==
  IF ~Admissible(st.activeTaskCount, maxConcurrentTasks)
  THEN [st EXCEPT !.taskQueue = Append(@, tk), !.everQueued = @ \cup {tk.tok}]
  ELSE LET s1 == [st EXCEPT !.activeTaskCount = @ + 1,
                            !.admitted = Append(@, tk.tok)]
           r == executeTask(tk.body)
       IN IF r.kind = "await"
          THEN [s1 EXCEPT !.running = @ \cup {tk}]
          ELSE AfterAwait(s1, tk, [kind |-> "throw", value |-> Null, error |-> r.error])

\* ------------------------------------------------------------------ actions
\* The singleton's retryAttempts and defaultTimeout.
RetryAttempts == 3
DefaultTimeout == 30000

\* new TaskExecutor(config): the fields' initial values and initializeWebSocket().
Constructed ==
  /\ activeTaskCount = 0
  /\ taskQueue = << >>
  /\ readyState = "CONNECTING"
  /\ sockId = 1
  /\ reconnectTimer = FALSE
  /\ liveSockets = 1
  /\ connectsSent = 0
  /\ pageRequests = [t \in Tokens |-> 0]
  /\ running = {}
  /\ frames = << >>
  /\ firstSocketFrames = 0
  /\ admitted = << >>
  /\ sendLog = [t \in Tokens |-> << >>]
  /\ ended = [t \in Tokens |-> NotEnded]
  /\ released = {}
  /\ everQueued = {}

\* The frontend store as create() builds it: no socket, not connected.
NoSocket == 0
StoreIds == 1..StoreSockets
StoreCreated ==
  /\ storeSocket = NoSocket
  /\ connected = FALSE
  /\ storeReady = [i \in StoreIds |-> "NONE"]
  /\ storeMade = 0

\* The executor as the module builds it, the cap scaled down to 1..MaxCap.
Init ==
  /\ maxConcurrentTasks \in 1..MaxCap
  /\ retryAttempts = RetryAttempts
  /\ defaultTimeout = DefaultTimeout
  /\ Constructed
  /\ StoreCreated

\* The executor built with any of a few configurations.
InitConfig ==
  /\ maxConcurrentTasks \in 1..MaxCap
  /\ retryAttempts \in 0..MaxRetry
  /\ defaultTimeout \in {0, DefaultTimeout}
  /\ Constructed
  /\ StoreCreated

\* The frames the onopen handler of the executor's socket sends:
\* initializeWebSocket sets onmessage and onclose and no onopen, so none.
ExecutorOnOpen == << >>

\* The connection is established: readyState becomes OPEN and the onopen
\* handler, if any, runs.
SocketOpen ==
  /\ readyState = "CONNECTING"
  /\ readyState' = "OPEN"
  /\ connectsSent' = connectsSent +
       Cardinality({ i \in 1..Len(ExecutorOnOpen) : ExecutorOnOpen[i] = "connect" })
  /\ UNCHANGED << configVars, storeVars, pageVars, engineVars, frameVars, sockId, reconnectTimer,
                  liveSockets >>

\* socket.onclose, lines 262-264: whether the close event of a socket in
\* readyState rs schedules initializeWebSocket.
\* (Variant: no reconnect is scheduled.)
OnClose_Never(rs) == FALSE
\* (Variant: only a socket that had opened reconnects.)
OnClose_OnlyIfOpened(rs) == rs = "OPEN"
OnClose(rs) == TRUE

\* The close event of the current socket, which was open or failed to connect.
\* (Variant: the close handler also abandons the waiting tasks.)
SocketClose_Abandon ==
  /\ readyState \in {"CONNECTING", "OPEN"}
  /\ readyState' = "CLOSED"
  /\ reconnectTimer' = (reconnectTimer \/ OnClose(readyState))
  /\ liveSockets' = liveSockets - 1
  /\ taskQueue' = << >>
  /\ UNCHANGED << configVars, storeVars, pageVars, activeTaskCount, running, admitted, sendLog, ended,
                  released, everQueued, frameVars, sockId, connectsSent >>
SocketClose ==
  /\ readyState \in {"CONNECTING", "OPEN"}
  /\ readyState' = "CLOSED"
  /\ reconnectTimer' = (reconnectTimer \/ OnClose(readyState))
  /\ liveSockets' = liveSockets - 1
  /\ UNCHANGED << configVars, storeVars, pageVars, engineVars, frameVars, sockId, connectsSent >>

\* The reconnect timer fires: initializeWebSocket creates the next socket and
\* makes it this.socket, whatever became of the previous one.
\* (Variant: setInterval, the timer stays pending after it has fired.)
initializeWebSocket_Interval ==
  /\ reconnectTimer
  /\ reconnectTimer' = TRUE
  /\ readyState' = "CONNECTING"
  /\ sockId' = IF sockId < MaxSockets THEN sockId + 1 ELSE sockId
  /\ liveSockets' = liveSockets + 1
  /\ connectsSent' = 0
  /\ UNCHANGED << configVars, storeVars, pageVars, engineVars, frameVars >>
initializeWebSocket ==
  /\ reconnectTimer
  /\ reconnectTimer' = FALSE
  /\ readyState' = "CONNECTING"
  /\ sockId' = IF sockId < MaxSockets THEN sockId + 1 ELSE sockId
  /\ liveSockets' = liveSockets + 1
  /\ connectsSent' = 0
  /\ UNCHANGED << configVars, storeVars, pageVars, engineVars, frameVars >>

\* socket.onmessage for the frame f, lines 255-260: JSON.parse, the
\* message_type test and handleTaskRequest.
Deliver(f) ==
  /\ readyState = "OPEN"
  /\ frames' = Append(frames, f)
  /\ firstSocketFrames' = IF sockId = 1 THEN firstSocketFrames + 1 ELSE firstSocketFrames
  /\ IF f.kind = "task_request"
     THEN SetEngine(handleTaskRequest(Engine, [tok |-> Len(frames) + 1, body |-> f.content]))
     ELSE UNCHANGED engineVars
  /\ UNCHANGED << configVars, storeVars, pageVars, socketVars >>

OnMessage ==
  /\ Len(frames) < NumFrames
  /\ \E f \in InboundFrames(Len(frames) + 1) : Deliver(f)

\* The I/O a handler awaits settles: executeTask returns or throws, and
\* handleTaskRequest resumes after line 275.
HandlerSettles ==
  /\ \E tk \in running : \E r \in OutcomesOf(tk.body) :
       /\ SetEngine(AfterAwait([Engine EXCEPT !.running = @ \ {tk}], tk,
                               [kind |-> r.kind, value |-> r.value, error |-> r.error]))
       /\ pageRequests' = [pageRequests EXCEPT ![tk.tok] = @ + r.requests]
  /\ UNCHANGED << configVars, storeVars, socketVars, frameVars >>

Next ==
  \/ SocketOpen
  \/ SocketClose
  \/ initializeWebSocket
  \/ OnMessage
  \/ HandlerSettles

Spec == Init /\ [][Next]_vars

\* The same engine with fewer frames, under the scheduling the platform and
\* the reconnect claim's hypothesis give: a pending timer fires, and the
\* endpoint does not refuse every connection attempt for ever.
OnMessageLive ==
  /\ Len(frames) < LiveFrames
  /\ \E f \in InboundFrames(Len(frames) + 1) : Deliver(f)

NextLive ==
  \/ SocketOpen
  \/ SocketClose
  \/ initializeWebSocket
  \/ OnMessageLive
  \/ HandlerSettles

FairSpec ==
  /\ Init
  /\ [][NextLive]_vars
  /\ WF_vars(initializeWebSocket)
  /\ SF_vars(SocketOpen)

\* The same engine again, over the configurations of InitConfig.
ConfigSpec == InitConfig /\ [][NextLive]_vars

\* The same engine fed task_request frames that carry a priority.
OnMessagePriority ==
  /\ Len(frames) < PriorityFrames
  /\ \E f \in PrioritizedFrames(Len(frames) + 1) : Deliver(f)

NextPriority ==
  \/ SocketOpen
  \/ SocketClose
  \/ initializeWebSocket
  \/ OnMessagePriority
  \/ HandlerSettles

\* The executor built with a cap of one, under which every request that
\* arrives while a handler is in progress waits in the queue.
InitPriority ==
  /\ maxConcurrentTasks = 1
  /\ retryAttempts = RetryAttempts
  /\ defaultTimeout = DefaultTimeout
  /\ Constructed
  /\ StoreCreated

PrioritySpec == InitPriority /\ [][NextPriority]_vars

\* The same engine, again with a cap of one, fed requests for the four
\* handlers.
OnMessageHandler ==
  /\ Len(frames) < HandlerFrames
  /\ \E f \in HandlerRequests(Len(frames) + 1) : Deliver(f)

NextHandler ==
  \/ SocketOpen
  \/ SocketClose
  \/ initializeWebSocket
  \/ OnMessageHandler
  \/ HandlerSettles

HandlerSpec == InitPriority /\ [][NextHandler]_vars

\* ------------------------------------------------- the frontend store
\* Everything that belongs to the executor, which the store never touches.
executorVars == << configVars, pageVars, engineVars, frameVars, socketVars >>

\* useWebSocket.connect, lines 17-49: a new socket is created, its handlers
\* are installed, and it replaces state.socket; the socket held before is
\* neither closed nor stripped of its handlers.
StoreConnect ==
  /\ storeMade < StoreSockets
  /\ storeMade' = storeMade + 1
  /\ storeReady' = [storeReady EXCEPT ![storeMade + 1] = "CONNECTING"]
  /\ storeSocket' = storeMade + 1
  /\ UNCHANGED << connected, executorVars >>

\* useWebSocket.disconnect, lines 51-57: close() starts the closing handshake
\* of the held socket, and the store forgets it at once.
StoreDisconnect ==
  /\ storeSocket # NoSocket
  /\ storeReady' = [storeReady EXCEPT ![storeSocket] =
                      IF @ \in {"CONNECTING", "OPEN"} THEN "CLOSING" ELSE @]
  /\ storeSocket' = NoSocket
  /\ connected' = FALSE
  /\ UNCHANGED << storeMade, executorVars >>

\* socket.onopen of any socket the store created, lines 20-23.
StoreOnOpen ==
  /\ \E s \in StoreIds :
       /\ storeReady[s] = "CONNECTING"
       /\ storeReady' = [storeReady EXCEPT ![s] = "OPEN"]
  /\ connected' = TRUE
  /\ UNCHANGED << storeSocket, storeMade, executorVars >>

\* socket.onclose of any socket the store created, lines 43-46: the end of a
\* closing handshake, a close by the server, or a failed connection attempt.
StoreOnClose ==
  /\ \E s \in StoreIds :
       /\ storeReady[s] \in {"CONNECTING", "OPEN", "CLOSING"}
       /\ storeReady' = [storeReady EXCEPT ![s] = "CLOSED"]
  /\ connected' = FALSE
  /\ UNCHANGED << storeSocket, storeMade, executorVars >>

NextStore ==
  \/ StoreConnect
  \/ StoreDisconnect
  \/ StoreOnOpen
  \/ StoreOnClose

StoreSpec == InitPriority /\ [][NextStore]_vars

\* ------------------------------------------------------------------ claims
IsTask(t) == t <= Len(frames) /\ frames[t].kind = "task_request"
Content(t) == frames[t].content
IsSent(e) == e.fate = "sent"
\* The task_result frames actually transmitted for token t.
Wire(t) == SelectSeq(sendLog[t], IsSent)
RunningTokens == { tk.tok : tk \in running }
UnknownType(t) == IsTask(t) /\ ~Content(t).isNull /\ Content(t).type \notin KnownTypes
NullFrameArrived ==
  \E i \in 1..Len(frames) : frames[i].kind = "task_request" /\ frames[i].content.isNull

\* C1: admission bound.  In every reachable state activeTaskCount is at most
\* maxConcurrentTasks, and so is the number of handlers in progress.
C1_AdmissionBound ==
  /\ activeTaskCount <= maxConcurrentTasks
  /\ Cardinality(running) <= maxConcurrentTasks

\* The engine at capacity after a reconnect, with a request waiting.
C1_Witness ==
  /\ sockId >= 2
  /\ activeTaskCount = maxConcurrentTasks
  /\ Cardinality(running) = maxConcurrentTasks
  /\ Len(taskQueue) > 0

\* C2: exactly one result.  Every admitted task whose handler returned or
\* threw while the socket was OPEN has exactly one task_result on the wire,
\* with status completed or failed.
C2_ExactlyOneResult ==
  \A t \in Tokens :
    ended[t].ready = "OPEN" =>
      /\ Len(Wire(t)) = 1
      /\ Wire(t)[1].status \in {"completed", "failed"}

\* C3: FIFO admission.  Tasks are admitted in their arrival order, the queue
\* holds them in arrival order, and no admitted task arrived after a task
\* that is still waiting.
C3_FifoAdmission ==
  /\ \A i, j \in 1..Len(admitted) : i < j => admitted[i] < admitted[j]
  /\ \A i, j \in 1..Len(taskQueue) : i < j => taskQueue[i].tok < taskQueue[j].tok
  /\ \A i \in 1..Len(taskQueue) : \A a \in Range(admitted) : a < taskQueue[i].tok

\* Two tasks that waited in the queue together have both been admitted from it.
C3_Witness ==
  \E i, j \in 1..Len(admitted) :
    /\ i < j
    /\ admitted[i] \in everQueued
    /\ admitted[j] \in everQueued

\* C4: failure isolation.  Every task (null content aside) whose handler
\* threw has had its slot released, so that the head of the queue was admitted.
C4_FailureIsolation ==
  \A t \in Tokens :
    (IsTask(t) /\ ~Content(t).isNull /\ ended[t].kind = "throw") => t \in released

\* C5: no silent drops.  In a run without null content, whenever no handler
\* is in progress no task is left in the queue: the queue is only ever drained
\* on the completion of a handler, so a task left there then waits for ever.
C5_NoSilentDrops ==
  (~NullFrameArrived /\ running = {}) => taskQueue = << >>

\* C6: malformed frames.  The handling of a frame that is not JSON, or of a
\* task_request without content or without fields, when it finishes at once
\* (a slot is free), leaves activeTaskCount and taskQueue as they were.
MalformedFrame(f) ==
  \/ f.kind = "not_json"
  \/ f.kind = "task_request" /\ (f.content.isNull \/ f.content.type = Undefined)
C6_MalformedStep ==
  /\ Len(frames') = Len(frames) + 1
  /\ MalformedFrame(frames'[Len(frames')])
  /\ activeTaskCount < maxConcurrentTasks
\* C6 as an action property: such a step changes neither variable.
C6_MalformedHarmless ==
  [][C6_MalformedStep => (activeTaskCount' = activeTaskCount /\ taskQueue' = taskQueue)]_vars

\* C7 as stated: every admitted task of unknown type has exactly one
\* task_result on the wire, failed with 'Unknown task type: <type>', holds no
\* slot and runs no handler.
C7_UnknownTypeOneResult ==
  \A t \in Range(admitted) :
    UnknownType(t) =>
      /\ Len(Wire(t)) = 1
      /\ Wire(t)[1].status = "failed"
      /\ Wire(t)[1].error = <<"Unknown task type: ", Content(t).type>>
      /\ t \in released
      /\ t \notin RunningTokens

\* C7 as amended: every admitted task of unknown type makes exactly one call
\* of sendTaskResult, failed with 'Unknown task type: <type>' and a null
\* result; the call transmits the result if the socket is OPEN when the task
\* is admitted and is dropped if the socket is closed; either way the task
\* runs no handler, its slot is released and the counter is back in step.
C7_UnknownTypeFails ==
  \A t \in Range(admitted) :
    UnknownType(t) =>
      /\ Len(sendLog[t]) = 1
      /\ sendLog[t][1].status = "failed"
      /\ sendLog[t][1].result = Null
      /\ sendLog[t][1].error = <<"Unknown task type: ", Content(t).type>>
      /\ sendLog[t][1].task_id = Content(t).id
      /\ ended[t].ready \in {"OPEN", "CLOSED"}
      /\ sendLog[t][1].fate = (IF ended[t].ready = "OPEN" THEN "sent" ELSE "dropped")
      /\ t \in released
      /\ t \notin RunningTokens
      /\ activeTaskCount = Cardinality(Range(admitted) \ released)

\* A task of unknown type that waited in the queue and was admitted while the
\* socket was closed: its one result was dropped.
C7_Witness ==
  \E t \in Range(admitted) :
    /\ UnknownType(t)
    /\ t \in everQueued
    /\ ended[t].ready = "CLOSED"
    /\ Len(sendLog[t]) = 1
    /\ Len(Wire(t)) = 0

\* C8: send is silent.  No call of sendTaskResult raises, whatever the state
\* of the socket.
C8_SendNeverThrows ==
  \A t \in Tokens : \A i \in 1..Len(sendLog[t]) : sendLog[t][i].fate # "threw"

\* C9: reconnect.  Every close event, of an open socket or of one that never
\* opened, leaves the socket CLOSED with the reconnect timer pending; a closed
\* socket is always followed by a new connection attempt, and, the endpoint
\* not refusing for ever, by an open connection.
C9_CloseStep ==
  \/ readyState = "OPEN" /\ readyState' # "OPEN"
  \/ readyState = "CONNECTING" /\ readyState' \notin {"CONNECTING", "OPEN"}
\* C9: the close step's effect, the pending timer, and the two leads-to.
C9_Reconnect ==
  /\ [][C9_CloseStep => (readyState' = "CLOSED" /\ reconnectTimer')]_vars
  /\ [](readyState = "CLOSED" => reconnectTimer)
  /\ (readyState = "CLOSED") ~> (readyState = "CONNECTING")
  /\ (readyState = "CLOSED") ~> (readyState = "OPEN")

\* The channel is connected again on a socket created by a reconnect.
C9_Witness == sockId >= 2 /\ readyState = "OPEN"

\* C10: reconnect resumption.  A task_request arriving on a later socket is
\* admitted if activeTaskCount is below the cap and appended to taskQueue
\* otherwise, and a task that arrived on a later socket and ended while the
\* socket was OPEN has every result it reports transmitted on that socket
\* (exactly one, unless the request carried no content).
C10_ArrivalStep ==
  /\ Len(frames') = Len(frames) + 1
  /\ frames'[Len(frames')].kind = "task_request"
  /\ sockId >= 2
C10_AdmissionRule ==
  LET t == Len(frames')
  IN IF activeTaskCount < maxConcurrentTasks
     THEN /\ admitted' = Append(admitted, t)
          /\ taskQueue' = taskQueue
          /\ \/ t \in { tk.tok : tk \in running' } /\ activeTaskCount' = activeTaskCount + 1
             \/ ended'[t].kind = "throw"
     ELSE /\ taskQueue' = Append(taskQueue, [tok |-> t, body |-> frames'[t].content])
          /\ activeTaskCount' = activeTaskCount
          /\ admitted' = admitted
          /\ running' = running
C10_ReportedOnNewSocket ==
  \A t \in Tokens :
    (t > firstSocketFrames /\ IsTask(t) /\ ended[t].ready = "OPEN") =>
      /\ \A i \in 1..Len(sendLog[t]) :
           sendLog[t][i].fate = "sent" /\ sendLog[t][i].task_id = Content(t).id
      /\ ~Content(t).isNull => Len(sendLog[t]) = 1
\* C10: the admission rule on every later arrival, and the reporting socket.
C10_Resumption ==
  /\ [][C10_ArrivalStep => C10_AdmissionRule]_vars
  /\ []C10_ReportedOnNewSocket

\* With one slot, a task admitted on the first socket, and the next request,
\* arriving after the reconnect, queued behind it, admitted later and
\* reported on the new socket.
C10_Witness ==
  \E t \in Tokens :
    /\ maxConcurrentTasks = 1
    /\ t = firstSocketFrames + 1
    /\ t - 1 \in Range(admitted)
    /\ t \in everQueued
    /\ ended[t].ready = "OPEN"
    /\ Len(Wire(t)) = 1

\* C11: connect on open.  Whenever the executor's socket is OPEN, and
\* whenever a frame has been processed on it, exactly one 'connect' message
\* has been sent on that socket; none has been sent on a socket that is not.
C11_ConnectOncePerOpen ==
  /\ readyState = "OPEN" => connectsSent = 1
  /\ readyState = "CONNECTING" => connectsSent = 0

\* C12: at most one connection.  At most one socket of the manager is
\* CONNECTING or OPEN, it is this.socket, and a new socket is created only
\* when the previous one is CLOSED.
C12_LiveInv ==
  /\ liveSockets <= 1
  /\ liveSockets = 1 <=> readyState \in {"CONNECTING", "OPEN"}
C12_NewSocketStep ==
  (readyState' = "CONNECTING" /\ (readyState # "CONNECTING" \/ liveSockets' > liveSockets))
    => (readyState = "CLOSED" /\ liveSockets = 0)
\* C12 as one property: the invariant and the step condition.
C12_OneConnection ==
  /\ []C12_LiveInv
  /\ [][C12_NewSocketStep]_vars

\* A reconnect has replaced a closed socket and the replacement is open.
C12_Witness == sockId >= 2 /\ liveSockets = 1 /\ readyState = "OPEN"

\* The tasks that were admitted and whose handler has neither returned nor
\* thrown.
ActiveTasks == { t \in Range(admitted) : ended[t].kind = "none" }

\* C13: counter integrity.  activeTaskCount is never negative and, in a run
\* without null content, always equals the number of admitted tasks that have
\* not yet reached a terminal state.
C13_CounterIntegrity ==
  /\ activeTaskCount >= 0
  /\ ~NullFrameArrived => activeTaskCount = Cardinality(ActiveTasks)

\* C14: completion while disconnected.  Every task (null content aside) whose
\* handler finished while the socket was not OPEN has left Active with its
\* slot released, the head of the queue being admitted in the same step.
C14_DisconnectedCompletion ==
  \A t \in Tokens :
    (IsTask(t) /\ ~Content(t).isNull /\ ended[t].ready \in {"CONNECTING", "CLOSED"})
      => t \in released

\* C15: work conservation.  The queue is never non-empty while
\* activeTaskCount is below maxConcurrentTasks.
C15_WorkConserving ==
  Len(taskQueue) > 0 => activeTaskCount >= maxConcurrentTasks

\* A handler has finished, the head of the queue took its slot, and a request
\* still waits behind it.
C15_Witness ==
  /\ released # {}
  /\ \E t \in Range(admitted) : t \in everQueued
  /\ Len(taskQueue) > 0
  /\ activeTaskCount = maxConcurrentTasks

\* C16: the two outcomes of a submission.  The step that handles an arriving
\* task_request either admits it (appended to the admitted order, queue
\* unchanged, activeTaskCount one higher unless the task already finished and
\* released its slot within the step) when activeTaskCount is below the cap,
\* or appends it at the tail of the queue and leaves activeTaskCount alone.
C16_SubmitStep ==
  /\ Len(frames') = Len(frames) + 1
  /\ frames'[Len(frames')].kind = "task_request"
C16_TwoOutcomes ==
  LET t == Len(frames')
      task == [tok |-> t, body |-> frames'[t].content]
  IN \/ /\ activeTaskCount < maxConcurrentTasks
        /\ admitted' = Append(admitted, t)
        /\ taskQueue' = taskQueue
        /\ activeTaskCount' = activeTaskCount + (IF t \in released' THEN 0 ELSE 1)
     \/ /\ activeTaskCount >= maxConcurrentTasks
        /\ taskQueue' = Append(taskQueue, task)
        /\ Len(taskQueue') = Len(taskQueue) + 1
        /\ activeTaskCount' = activeTaskCount
        /\ admitted' = admitted
        /\ running' = running
\* With a cap of 2 and three requests of which none has finished, the first
\* two are Active and the third is the only one Queued.
C16_CapTwoScenario ==
  (/\ maxConcurrentTasks = 2
   /\ Len(frames) = 3
   /\ \A t \in 1..3 : IsTask(t) /\ ended[t].kind = "none")
    => /\ RunningTokens = {1, 2}
       /\ activeTaskCount = 2
       /\ Len(taskQueue) = 1
       /\ taskQueue[1].tok = 3
\* C16 as one property: the step rule and the scenario.
C16_Submit ==
  /\ [][C16_SubmitStep => C16_TwoOutcomes]_vars
  /\ []C16_CapTwoScenario

\* Cap 2, T1 and T2 in progress, T3 waiting.
C16_Witness ==
  /\ maxConcurrentTasks = 2
  /\ RunningTokens = {1, 2}
  /\ Len(taskQueue) = 1
  /\ taskQueue[1].tok = 3

QueuedTokens == { taskQueue[i].tok : i \in 1..Len(taskQueue) }

\* C17: monotonic lifecycle.  A task is Queued while in taskQueue, Active from
\* its admission until its handler has finished, and Completed or Failed by
\* the status sendTaskResult is called with.  No task is queued or admitted
\* twice, none is both; a task that leaves the queue is admitted in that step
\* and never enters the queue again; an outcome once recorded never changes;
\* and a finished task (null content aside) has exactly one terminal report.
C17_LifecycleInv ==
  /\ \A i, j \in 1..Len(admitted) : admitted[i] = admitted[j] => i = j
  /\ \A i, j \in 1..Len(taskQueue) : taskQueue[i].tok = taskQueue[j].tok => i = j
  /\ QueuedTokens \cap Range(admitted) = {}
  /\ \A t \in Tokens : ended[t].kind # "none" => t \in Range(admitted)
C17_LifecycleStep ==
  /\ \A i \in 1..Len(admitted) : i <= Len(admitted') /\ admitted'[i] = admitted[i]
  /\ \A t \in QueuedTokens : t \notin QueuedTokens' => t \in Range(admitted')
  /\ \A t \in Tokens : (t \in everQueued \/ t \in Range(admitted)) /\ t \notin QueuedTokens
                         => t \notin QueuedTokens'
  /\ \A t \in Tokens : ended[t].kind # "none" => ended'[t] = ended[t]
C17_OneTerminal ==
  \A t \in Tokens :
    /\ Len(sendLog[t]) <= 1
    /\ (IsTask(t) /\ ~Content(t).isNull /\ ended[t].kind # "none") => Len(sendLog[t]) = 1
\* C17 as one property.
C17_MonotonicLifecycle ==
  /\ []C17_LifecycleInv
  /\ [][C17_LifecycleStep]_vars
  /\ []C17_OneTerminal
C17_QueueHalf ==
  /\ []C17_LifecycleInv
  /\ [][C17_LifecycleStep]_vars

\* C18: no retries.  Whatever retryAttempts is, a task is admitted, and so
\* handed to executeTask, at most once; a task whose handler threw or
\* rejected has exactly one sendTaskResult call, with status failed; and a
\* task whose handler has finished is never in progress or queued again.
C18_AtMostOnce ==
  /\ \A i, j \in 1..Len(admitted) : i # j => admitted[i] # admitted[j]
  /\ \A t \in Tokens :
       (IsTask(t) /\ ~Content(t).isNull /\ ended[t].kind = "throw") =>
         /\ Len(sendLog[t]) = 1
         /\ sendLog[t][1].status = "failed"
         /\ t \notin RunningTokens
         /\ t \notin QueuedTokens
C18_NoRerunStep ==
  /\ Len(admitted') >= Len(admitted)
  /\ \A t \in Tokens :
       ended[t].kind # "none" =>
         /\ t \notin RunningTokens'
         /\ t \notin QueuedTokens'
         /\ \A i \in (Len(admitted) + 1)..Len(admitted') : admitted'[i] # t
C18_NoRetries ==
  /\ []C18_AtMostOnce
  /\ [][C18_NoRerunStep]_vars

\* A handler failed under a configuration that asks for retries, and the task
\* was reported failed once and is gone.
C18_Witness ==
  /\ retryAttempts > 0
  /\ \E t \in Tokens :
       /\ IsTask(t)
       /\ Content(t).type = "NETWORK_INTERCEPT"
       /\ ended[t].kind = "throw"
       /\ Len(sendLog[t]) = 1
       /\ t \notin RunningTokens

\* C20: no timeout, no cancellation.  Whatever defaultTimeout is, a task in
\* progress has no sendTaskResult call and holds its slot; it stops being in
\* progress only in the step in which its own handler returns or throws; and
\* while maxConcurrentTasks handlers are in progress and none of them
\* finishes, no task is admitted and the queue only grows at its tail.
C20_HoldsSlot ==
  /\ \A t \in RunningTokens : sendLog[t] = << >> /\ ended[t].kind = "none"
  /\ activeTaskCount >= Cardinality(running)
C20_NoAbortStep ==
  /\ \A t \in RunningTokens :
       t \notin RunningTokens' =>
         /\ ended'[t].kind \in {"return", "throw"}
         /\ Len(sendLog'[t]) >= 1
  /\ (Cardinality(running) = maxConcurrentTasks /\ running' = running) =>
       /\ admitted' = admitted
       /\ Len(taskQueue') >= Len(taskQueue)
       /\ \A i \in 1..Len(taskQueue) : taskQueue'[i] = taskQueue[i]
C20_NoTimeout ==
  /\ []C20_HoldsSlot
  /\ [][C20_NoAbortStep]_vars

\* Every slot is held by a handler that has not replied, across a reconnect,
\* and a later request waits in the queue.
C20_Witness ==
  /\ defaultTimeout = DefaultTimeout
  /\ sockId >= 2
  /\ Cardinality(running) = maxConcurrentTasks
  /\ Len(taskQueue) > 0
  /\ \A i \in 1..Len(taskQueue) : sendLog[taskQueue[i].tok] = << >>

\* A task, and the engine's state, with every priority replaced by 0.
ErasePriority(tk) == [tk EXCEPT !.body.priority = 0]
EraseEngine(st) ==
  [st EXCEPT !.running = { ErasePriority(tk) : tk \in @ },
             !.taskQueue = [i \in 1..Len(@) |-> ErasePriority(@[i])]]

\* C19: priority does not influence scheduling.  In every reachable state,
\* handling the next arrival and resuming after any handler's completion
\* commute with erasing the priorities: the state reached from the erased
\* state on the erased input is the erasure of the state reached, admitted
\* order and sendTaskResult logs included.  By induction two runs with the
\* same arrivals and completions that differ only in priorities have the same
\* admission order and the same task_result sequence.
C19_PriorityBlind ==
  /\ \A f \in (IF Len(frames) < PriorityFrames
                THEN PrioritizedFrames(Len(frames) + 1) ELSE {}) :
       LET tk == [tok |-> Len(frames) + 1, body |-> f.content]
       IN EraseEngine(handleTaskRequest(Engine, tk))
            = EraseEngine(handleTaskRequest(EraseEngine(Engine), ErasePriority(tk)))
  /\ \A tk \in running : \A r \in HandlerOutcomes :
       EraseEngine(AfterAwait([Engine EXCEPT !.running = @ \ {tk}], tk, r))
         = EraseEngine(AfterAwait([EraseEngine(Engine) EXCEPT !.running = @ \ {ErasePriority(tk)}],
                                  ErasePriority(tk), r))

\* Two tasks waited in the queue together, the one of lower priority ahead,
\* and were admitted in that order.
C19_Witness ==
  \E i, j \in 1..Len(admitted) :
    /\ i < j
    /\ admitted[i] \in everQueued
    /\ admitted[j] \in everQueued
    /\ Content(admitted[i]).priority < Content(admitted[j]).priority

\* C23: a disconnection changes no scheduling state.  The close event of the
\* socket leaves activeTaskCount, taskQueue, the handlers in progress and the
\* set of Active tasks as they were, and a frame is taken in only while the
\* socket is OPEN.
C23_CloseEvent == readyState # "CLOSED" /\ readyState' = "CLOSED"
C23_Disconnection ==
  /\ [][C23_CloseEvent => /\ UNCHANGED << activeTaskCount, taskQueue, running >>
                          /\ ActiveTasks' = ActiveTasks]_vars
  /\ [][frames' # frames => readyState = "OPEN"]_vars

\* The socket closed with a handler in progress and a request waiting, both
\* still there, and intake resumed on the replacement socket.
C23_Witness ==
  /\ sockId >= 2
  /\ firstSocketFrames >= 2
  /\ Len(frames) > firstSocketFrames
  /\ Cardinality(running) >= 1
  /\ Len(taskQueue) >= 1
  /\ taskQueue[1].tok <= firstSocketFrames

\* C28: reconnects never pile up.  The number of sockets CONNECTING or OPEN
\* plus the number of pending reconnect timers is exactly one; a close event
\* finds no timer pending and leaves one; and a timer becomes pending only
\* in a close event.
PendingTimers == IF reconnectTimer THEN 1 ELSE 0
C28_NoPileUp ==
  /\ [](liveSockets + PendingTimers = 1)
  /\ [][C23_CloseEvent => (~reconnectTimer /\ reconnectTimer')]_vars
  /\ [][(~reconnectTimer /\ reconnectTimer') => (readyState \in {"CONNECTING", "OPEN"}
                                                   /\ readyState' = "CLOSED")]_vars

\* A socket that never opened has closed and its single timer is pending,
\* after an earlier reconnect.
C28_Witness ==
  /\ sockId >= 2
  /\ readyState = "CLOSED"
  /\ reconnectTimer
  /\ liveSockets = 0
  /\ Len(frames) = 0

\* C29: results follow the current socket.  A task that arrived on the first
\* socket and whose handler finishes while a replacement socket is OPEN has
\* its result transmitted, by this.socket.
C29_LateFinish ==
  \E t \in RunningTokens :
    /\ t <= firstSocketFrames
    /\ t \notin RunningTokens'
    /\ sockId >= 2
    /\ readyState = "OPEN"
    /\ Len(Wire(t)') # 1
RecognisedActions(type) ==
  IF type = "DOM_MANIPULATION" THEN DOMActions
  ELSE IF type = "UI_AUTOMATION" THEN UIActions
  ELSE {}
UnknownActionError(task) ==
  << (IF task.type = "DOM_MANIPULATION" THEN "Unknown DOM action: "
      ELSE IF task.type = "UI_AUTOMATION" THEN "Unknown UI action: "
      ELSE IF task.type = "NETWORK_INTERCEPT" THEN "Unknown network action: "
      ELSE "Unknown extraction action: "), task.action >>
HasUnknownAction(t) ==
  /\ IsTask(t)
  /\ Content(t).type \in KnownTypes
  /\ Content(t).hasParameters
  /\ Content(t).action # Undefined
  /\ Content(t).action \notin RecognisedActions(Content(t).type)
\* Task t failed at its admission with error err: no I/O was started, one
\* sendTaskResult call reported it failed, and its slot was released.
FailedAtAdmission(t, err) ==
  /\ t \notin RunningTokens
  /\ pageRequests[t] = 0
  /\ t \in Range(admitted) =>
       /\ ended[t].kind = "throw"
       /\ Len(sendLog[t]) = 1
       /\ sendLog[t][1].status = "failed"
       /\ sendLog[t][1].result = Null
       /\ sendLog[t][1].error = err
       /\ sendLog[t][1].fate # "threw"
       /\ t \in released

\* C21 as stated: in every known category a task with an unrecognised action
\* fails at its admission with 'Unknown <category> action: <action>' and
\* starts no I/O.
C21_UnknownActionEveryCategory ==
  \A t \in Tokens : HasUnknownAction(t) => FailedAtAdmission(t, UnknownActionError(Content(t)))

\* C21: unknown action.  A DOM_MANIPULATION or UI_AUTOMATION task with an
\* unrecognised action fails at its admission with 'Unknown DOM action: ' or
\* 'Unknown UI action: ' and the action; a DATA_EXTRACTION task is judged by
\* parameters.type and fails with 'Unknown extraction type: ' and that type;
\* a NETWORK_INTERCEPT task, and a DATA_EXTRACTION task of a known type, run
\* their I/O whatever action they carry and never report an unknown action.
C21_UnknownAction ==
  \A t \in Tokens :
    (IsTask(t) /\ Content(t).hasParameters) =>
      LET c == Content(t)
      IN IF c.type \in {"DOM_MANIPULATION", "UI_AUTOMATION"}
         THEN HasUnknownAction(t) => FailedAtAdmission(t, UnknownActionError(c))
         ELSE IF c.type = "DATA_EXTRACTION" /\ c.extraction \notin ExtractionTypes
         THEN FailedAtAdmission(t, <<"Unknown extraction type: ", c.extraction>>)
         ELSE /\ t \in Range(admitted) => (t \in RunningTokens \/ ended[t].kind # "none")
              /\ \A i \in 1..Len(sendLog[t]) :
                   sendLog[t][i].error # UnknownActionError(c)

\* A DOM task with an unknown action was reported failed, and a network task
\* carrying the same action completed.
C21_Witness ==
  \E t, u \in Tokens :
    /\ HasUnknownAction(t) /\ HasUnknownAction(u)
    /\ Content(t).type = "DOM_MANIPULATION"
    /\ Len(sendLog[t]) = 1 /\ sendLog[t][1].status = "failed"
    /\ Content(u).type = "NETWORK_INTERCEPT"
    /\ Len(sendLog[u]) = 1 /\ sendLog[u][1].status = "completed"

\* The tasks whose handler goes through executeInPage.
UsesPage(t) ==
  /\ IsTask(t)
  /\ Content(t).hasParameters
  /\ \/ Content(t).type = "DOM_MANIPULATION" /\ Content(t).action \in DOMActions
     \/ Content(t).type = "DATA_EXTRACTION" /\ Content(t).extraction \in {"TEXT", "ATTRIBUTES"}

\* C22: the remote execution proxy.  A finished task that went through
\* executeInPage sent at most one request to a tab.  If it sent none, there
\* was no target: it was reported failed, once, with the error 'No active
\* tab'.  If it sent one, it got one reply and at most one result went out,
\* exactly one when the socket was OPEN.
C22_RemoteProxy ==
  \A t \in Tokens :
    (UsesPage(t) /\ ended[t].kind # "none") =>
      /\ pageRequests[t] \in {0, 1}
      /\ pageRequests[t] = 0 =>
           /\ ended[t].kind = "throw"
           /\ Len(sendLog[t]) = 1
           /\ sendLog[t][1].status = "failed"
           /\ sendLog[t][1].error = <<"No active tab">>
      /\ pageRequests[t] = 1 =>
           /\ Len(Wire(t)) <= 1
           /\ ended[t].ready = "OPEN" => Len(Wire(t)) = 1

\* The tasks whose handler reached its I/O: the fetch of a network task, or
\* executeInPage.
StartsIO(t) ==
  \/ UsesPage(t)
  \/ IsTask(t) /\ Content(t).hasParameters /\ Content(t).type = "NETWORK_INTERCEPT"

\* C24: handler I/O failure.  A task whose I/O failed, the socket not being
\* closed at that moment (a closed socket loses the message), has exactly
\* one task_result on the wire, with status failed, result null and the
\* handler's non-empty error text, and has released its slot as a successful
\* task does.
C24_IOFailure ==
  \A t \in Tokens :
    (StartsIO(t) /\ ended[t].kind = "throw" /\ ended[t].ready # "CLOSED") =>
      /\ Len(Wire(t)) = 1
      /\ Wire(t)[1].status = "failed"
      /\ Wire(t)[1].result = Null
      /\ Wire(t)[1].error \in {FetchError, NoReceiver, TypeError, <<"No active tab">>}
      /\ t \in released

\* A DOM task whose page function reported that the selector matched nothing.
NoMatch(t) ==
  /\ IsTask(t)
  /\ Content(t).type = "DOM_MANIPULATION"
  /\ Content(t).action \in DOMActions
  /\ pageRequests[t] = 1
  /\ ended[t].kind = "return"
  /\ ended[t].value = <<"false">>

\* What the handler of a DOM task with a recognised action can end with: it
\* awaits the page, and a false from the page function is a return.
FalseIsReturned ==
  \A a \in DOMActions :
    LET task == [isNull |-> FALSE, id |-> 1, task_id |-> NoId, type |-> "DOM_MANIPULATION",
                 hasParameters |-> TRUE, action |-> a, extraction |-> Undefined]
    IN /\ executeTask(task).kind = "await"
       /\ \E r \in OutcomesOf(task) : r.kind = "return" /\ r.value = <<"false">>
       /\ \A r \in OutcomesOf(task) : r.value = <<"false">> => r.kind = "return"

\* C25: a negative result is not a failure.  For CLICK, INPUT and SCROLL
\* alike the handler awaits executeInPage, which resolves with the false the
\* page function returned; and a DOM task that found no element has no
\* task_result with status failed on the wire: what is sent says completed
\* with result false, and it is sent when the socket is OPEN.
C25_NegativeResult ==
  /\ FalseIsReturned
  /\ \A t \in Tokens :
       NoMatch(t) =>
         /\ \A i \in 1..Len(Wire(t)) :
              /\ Wire(t)[i].status = "completed"
              /\ Wire(t)[i].result = <<"false">>
              /\ Wire(t)[i].error = Null
         /\ Len(Wire(t)) <= 1
         /\ ended[t].ready = "OPEN" => Len(Wire(t)) = 1

\* A CLICK found no element and was reported completed with result false.
C25_Witness ==
  \E t \in Tokens :
    /\ NoMatch(t)
    /\ Content(t).action = "CLICK"
    /\ Len(Wire(t)) = 1
    /\ Wire(t)[1].status = "completed"
    /\ Wire(t)[1].result = <<"false">>

\* C26: result correlation.  For a request that carries its identifier as
\* content.task_id, every task_result the executor builds for it carries the
\* same task_id, in a message with the keys sender, message_type and content.
C26_Correlation ==
  \A t \in Tokens :
    (IsTask(t) /\ Content(t).task_id # NoId) =>
      \A i \in 1..Len(sendLog[t]) :
        /\ sendLog[t][i].task_id = Content(t).task_id
        /\ TaskResultKeys = {"sender", "message_type", "content"}

\* C27: consistent results.  Every task_result the executor builds, sent or
\* not, says completed or failed; failed comes with a null result;
\* completed comes with a null error and the value the handler returned;
\* none carries both a result and an error.
C27_ConsistentResults ==
  \A t \in Tokens : \A i \in 1..Len(sendLog[t]) :
    LET e == sendLog[t][i]
    IN /\ e.status \in {"completed", "failed"}
       /\ e.status = "failed" => e.result = Null
       /\ e.status = "completed" =>
            /\ e.error = Null
            /\ ended[t].kind = "return"
            /\ e.result = ended[t].value
       /\ ~(e.result # Null /\ e.error # Null)

\* One task was reported completed with the value true, another failed with
\* an error, and a third call followed a send that had thrown.
C27_Witness ==
  \E t, u \in Tokens :
    /\ Len(sendLog[t]) = 2
    /\ sendLog[t][1].status = "completed"
    /\ sendLog[t][1].result = <<"true">>
    /\ sendLog[t][2].status = "failed"
    /\ Len(Wire(u)) = 1
    /\ Wire(u)[1].status = "failed"

\* C30: the store's connected flag.  connected is true exactly when the
\* socket the store holds is OPEN, and no socket other than the held one is
\* CONNECTING or OPEN.
C30_ConnectedFlag ==
  /\ connected <=> (storeSocket # NoSocket /\ storeReady[storeSocket] = "OPEN")
  /\ \A s \in StoreIds : s # storeSocket => storeReady[s] \notin {"CONNECTING", "OPEN"}

====
